---- MODULE Spec2Model ----
(***************************************************************************)
(* Model of the two components of the company-directory admin UI:          *)
(*   - CSVUploader      (src/src/components/CSVUploader.tsx)               *)
(*   - VerificationFlag (src/src/components/VerificationFlag.tsx)          *)
(*                                                                         *)
(* A JavaScript string is a sequence of symbols.  A symbol is either one   *)
(* of the structural characters "\n", "," and " " or a word standing for   *)
(* the run of characters it spells ("company_name", "Acme", ...).  No word *)
(* contains a structural character and no concatenation of words spells    *)
(* another word, so sequence equality is string equality.                  *)
(***************************************************************************)
EXTENDS Integers, Sequences, FiniteSets, TLC

VARIABLES
    isDragging,      \* useState(false)                        CSVUploader.tsx:13
    uploadStatus,    \* useState('idle')                       CSVUploader.tsx:14
    errorMessage,    \* useState('')                           CSVUploader.tsx:15
    processedRows,   \* useState(0)                            CSVUploader.tsx:16
    skippedRows,     \* useState(0)                            CSVUploader.tsx:17
    store,           \* what getAllRecords() returns: the ids of the known records
    pending,         \* import runs suspended at "await file.text()"
    consoleLog,      \* argument lists of console.log('New records:', ...)
    lastSound,       \* last playSound(type) call
    closeTimer,      \* setTimeout(() => onClose(), 3000) is armed
    onCloseCalled,   \* the parent's onClose has been called (X button or timer)
    lastRun,         \* history: text and outcome of the run that completed last
    showPopup,       \* useState(false)                        VerificationFlag.tsx:22
    action,          \* useState(null)                         VerificationFlag.tsx:23
    reported,        \* calls made to the verification-store collaborator
    clicks           \* history: icons the user clicked, and whether the popup was up

uploaderVars == <<isDragging, uploadStatus, errorMessage, processedRows, skippedRows,
                  store, pending, consoleLog, lastSound, closeTimer, onCloseCalled,
                  lastRun>>
flagVars == <<showPopup, action, reported, clicks>>
vars == <<isDragging, uploadStatus, errorMessage, processedRows, skippedRows,
          store, pending, consoleLog, lastSound, closeTimer, onCloseCalled,
          lastRun, showPopup, action, reported, clicks>>

----------------------------------------------------------------------------
(* Bounds of the model *)

MaxRows == 2
MaxStore == 2
MaxPending == 2
MaxClicks == 5

----------------------------------------------------------------------------
(* Strings *)

NL == "\n"
Comma == ","
Dash == "-"
Whitespace == {" "}
Undefined == <<"<undefined>">>

LowerTable ==
    "Company_Name" :> "company_name" @@ "ADDRESS" :> "address" @@
    "zipCode" :> "zipcode" @@ "taxId" :> "taxid" @@
    "Acme" :> "acme" @@ "Widgets" :> "widgets"

UpperTable ==
    "a" :> "A" @@ "b" :> "B" @@ "c" :> "C" @@
    "Acme" :> "ACME" @@ "Widgets" :> "WIDGETS" @@
    "company_name" :> "COMPANY_NAME"

ToLowerCase(s) ==
    [i \in 1..Len(s) |-> IF s[i] \in DOMAIN LowerTable THEN LowerTable[s[i]] ELSE s[i]]

ToUpperCase(s) ==
    [i \in 1..Len(s) |-> IF s[i] \in DOMAIN UpperTable THEN UpperTable[s[i]] ELSE s[i]]

RECURSIVE TrimStart(_)
TrimStart(s) ==
    IF s # <<>> /\ Head(s) \in Whitespace THEN TrimStart(Tail(s)) ELSE s

RECURSIVE TrimEnd(_)
TrimEnd(s) ==
    IF s # <<>> /\ s[Len(s)] \in Whitespace THEN TrimEnd(SubSeq(s, 1, Len(s) - 1)) ELSE s

Trim(s) == TrimEnd(TrimStart(s))

RECURSIVE SplitFrom(_, _, _)
SplitFrom(s, sep, cur) ==
    IF s = <<>> THEN <<cur>>
    ELSE IF Head(s) = sep THEN <<cur>> \o SplitFrom(Tail(s), sep, <<>>)
    ELSE SplitFrom(Tail(s), sep, Append(cur, Head(s)))

Split(s, sep) == SplitFrom(s, sep, <<>>)

MapTrim(ss) == [i \in 1..Len(ss) |-> Trim(ss[i])]
MapTrimUpper(ss) == [i \in 1..Len(ss) |-> ToUpperCase(Trim(ss[i]))]

----------------------------------------------------------------------------
(* Numbers and ids *)

NaN == -1
DigitOf == [d \in 0..9 |-> CASE d = 0 -> "0" [] d = 1 -> "1" [] d = 2 -> "2"
                             [] d = 3 -> "3" [] d = 4 -> "4" [] d = 5 -> "5"
                             [] d = 6 -> "6" [] d = 7 -> "7" [] d = 8 -> "8"
                             [] d = 9 -> "9"]
Digits == {DigitOf[d] : d \in 0..9}
ValueOfDigit(c) == CHOOSE d \in 0..9 : DigitOf[d] = c

RECURSIVE NumberToString(_)
NumberToString(n) ==
    IF n = NaN THEN <<"N", "a", "N">>
    ELSE IF n < 10 THEN <<DigitOf[n]>>
    ELSE Append(NumberToString(n \div 10), DigitOf[n % 10])

\* applied to strings spelt one character per symbol (digits, or N a N)
RECURSIVE PadStart(_, _, _)
PadStart(s, len, fill) ==
    IF Len(s) >= len THEN s ELSE PadStart(<<fill>> \o s, len, fill)

RECURSIVE ParseDigits(_, _)
ParseDigits(s, acc) ==
    IF s = <<>> \/ Head(s) \notin Digits THEN acc
    ELSE ParseDigits(Tail(s), 10 * acc + ValueOfDigit(Head(s)))

ParseInt(s) ==
    IF s = Undefined \/ s = <<>> \/ Head(s) \notin Digits THEN NaN
    ELSE ParseDigits(s, 0)

PlusOne(n) == IF n = NaN THEN NaN ELSE n + 1

FormatId(n) == <<"CORP", Dash>> \o PadStart(NumberToString(n), 4, "0")

getAllRecords == store

generateId ==
    LET records == getAllRecords
        \* records[records.length - 1]?.id || 'CORP-0000': no record, or an empty id
        lastId == IF Len(records) >= 1 /\ records[Len(records)] # <<>>
                  THEN records[Len(records)]
                  ELSE <<"CORP", Dash, "0", "0", "0", "0">>
        parts == Split(lastId, Dash)
        lastNumber == ParseInt(IF Len(parts) >= 2 THEN parts[2] ELSE Undefined)
    IN <<"CORP", Dash>> \o PadStart(NumberToString(PlusOne(lastNumber)), 4, "0")

----------------------------------------------------------------------------
(* Row conversion *)

Range(f) == {f[i] : i \in DOMAIN f}

Key(word) == <<word>>

Get(data, key) == IF key \in DOMAIN data THEN data[key] ELSE Undefined

TrimOrEmpty(v) == IF v = Undefined THEN <<>> ELSE Trim(v)

isRowEmptySome(data) == \E k \in DOMAIN data : Trim(data[k]) = <<>>

isRowEmpty(data) == \A k \in DOMAIN data : Trim(data[k]) = <<>>

DefaultLogo == <<"https://images.unsplash.com/photo-1516245834210-c4c142787335?auto=format&fit=crop&w=300">>
Today == <<"<today>">>
MsgFormat == "Invalid CSV format. Required column \"company_name\" is missing."
MsgNotCsv == "Please upload a valid CSV file"
MsgSyntax == "<SyntaxError message>"
MsgRead == "<read error message>"

NoValue == <<>>

JSONParseLenient(s) == [ok |-> TRUE, value |-> <<>>]

JSONParse(s) ==
    IF s = <<"[]">> THEN [ok |-> TRUE, value |-> <<>>]
    ELSE IF s = <<"[1]">> THEN [ok |-> TRUE, value |-> <<"1">>]
    ELSE [ok |-> FALSE, value |-> NoValue]

ParseImages(data) ==
    LET v == Get(data, Key("images"))
    IN IF v = Undefined \/ v = <<>> THEN [ok |-> TRUE, value |-> <<>>]
       ELSE JSONParse(IF Trim(v) = <<>> THEN <<"[]">> ELSE Trim(v))

ListColumn(data, key, default) ==
    LET v == Get(data, key)
    IN IF v # Undefined /\ Trim(v) # <<>> THEN MapTrimUpper(Split(v, Comma)) ELSE default

NoRecord == [id |-> <<>>]

SkipsRowOnlyEmpty(data) == isRowEmpty(data)

SkipsRow(data) ==
    \/ isRowEmpty(data)
    \/ TrimOrEmpty(Get(data, Key("company_name"))) = <<>>

BuildRecord(data) ==
    LET company == Trim(data[Key("company_name")])
        descr == TrimOrEmpty(Get(data, Key("description")))
        logo == TrimOrEmpty(Get(data, Key("logo")))
    IN [ id |-> generateId,
         status |-> "ACTIVE",
         level |-> "PUBLIC",
         lastAccessed |-> Today,
         subject |-> company,
         details |-> IF descr # <<>> THEN descr ELSE company,
         requiredClearance |-> "PUBLIC",
         name |-> company,
         address |-> TrimOrEmpty(Get(data, Key("address"))),
         zipCode |-> TrimOrEmpty(Get(data, Key("zipCode"))),
         city |-> TrimOrEmpty(Get(data, Key("city"))),
         country |-> TrimOrEmpty(Get(data, Key("country"))),
         logo |-> IF logo # <<>> THEN logo ELSE DefaultLogo,
         images |-> ParseImages(data).value,
         category |-> ListColumn(data, Key("category"), <<>>),
         tags |-> ListColumn(data, Key("tags"), <<>>),
         twitter |-> TrimOrEmpty(Get(data, Key("twitter"))),
         linkedin |-> TrimOrEmpty(Get(data, Key("linkedin"))),
         description |-> descr,
         sourceFound |-> "Company Website",
         ceo |-> TrimOrEmpty(Get(data, Key("ceo"))),
         language |-> ListColumn(data, Key("language"), <<<<"ENGLISH">>>>),
         taxId |-> TrimOrEmpty(Get(data, Key("taxId"))),
         verificationStatus |-> <<>> ]

\* kind is "null" (row skipped), "record", or "throw" (JSON.parse raised)
convertToRecord(data) ==
    IF SkipsRow(data) THEN [kind |-> "null", rec |-> NoRecord]
    ELSE IF ~ParseImages(data).ok THEN [kind |-> "throw", rec |-> NoRecord]
    ELSE [kind |-> "record", rec |-> BuildRecord(data)]

----------------------------------------------------------------------------
(* processCSV, the part after "await file.text()" *)

ParseHeaders(line) == MapTrim(Split(ToLowerCase(line), Comma))

HeadersValidAlways(headers) == TRUE

HeadersValid(headers) == Key("company_name") \in Range(headers)

\* headers.forEach((header, index) => data[header] = values[index] || '')
RowData(headers, values) ==
    [h \in Range(headers) |->
        LET index == CHOOSE i \in 1..Len(headers) :
                        /\ headers[i] = h
                        /\ \A j \in 1..Len(headers) : headers[j] = h => j <= i
        IN IF index <= Len(values) THEN values[index] ELSE <<>>]

RECURSIVE RowLoop(_, _, _, _)
RowLoop(lines, i, headers, acc) ==
    IF i > Len(lines) THEN acc
    ELSE IF Trim(lines[i]) = <<>>
    THEN RowLoop(lines, i + 1, headers, [acc EXCEPT !.skipped = @ + 1])
    ELSE LET values == MapTrim(Split(lines[i], Comma))
             data == RowData(headers, values)
             record == convertToRecord(data)
         IN CASE record.kind = "record" ->
                   RowLoop(lines, i + 1, headers,
                           [acc EXCEPT !.newRecords = Append(@, record.rec),
                                       !.processed = @ + 1])
              [] record.kind = "null" ->
                   RowLoop(lines, i + 1, headers, [acc EXCEPT !.skipped = @ + 1])
              [] record.kind = "throw" ->
                   [acc EXCEPT !.thrown = TRUE, !.message = MsgSyntax]

\* The outcome of the try block of processCSV on the decoded text.
ProcessText(text) ==
    LET lines == Split(text, NL)
        headers == ParseHeaders(lines[1])
        start == [thrown |-> FALSE, message |-> "", newRecords |-> <<>>,
                  processed |-> 0, skipped |-> 0]
    IN IF ~HeadersValid(headers)
       THEN [start EXCEPT !.thrown = TRUE, !.message = MsgFormat]
       ELSE RowLoop(lines, 2, headers, start)

----------------------------------------------------------------------------
(* Inputs: the CSV files a user can hand to the uploader *)

HeaderLines ==
    { <<"company_name", Comma, "description">>,
      <<"Company_Name", " ", Comma, " ", "category">>,
      <<"company_name", Comma, "images">>,
      <<"name", Comma, "description">>,
      <<"company_name", Comma, "ADDRESS", Comma, "zipCode", Comma, "language">> }

DataLines ==
    { <<"Acme", Comma, "Widgets">>,
      <<Comma, Comma>>,
      <<>>,
      <<" ", " ">>,
      <<" ", "Acme", " ", Comma, "a", Comma, " ", "b", Comma, "c">>,
      <<Comma, "Widgets">>,
      <<"b", Comma, "[1]">> }

\* The first two data rows range over all of DataLines, the rows after them
\* over these.
LaterLines ==
    { <<>>,
      <<"Acme", Comma, "Widgets">>,
      <<" ", "Acme", " ", Comma, "a", Comma, " ", "b", Comma, "c">> }

LinesAt(n) == IF n \in {1, 2} THEN DataLines ELSE LaterLines

RECURSIVE RowTexts(_)
RowTexts(n) ==
    IF n = 0 THEN {<<>>}
    ELSE {t \o <<NL>> \o l : t \in RowTexts(n - 1), l \in LinesAt(n)}

Texts == {h \o body : h \in HeaderLines, body \in UNION {RowTexts(n) : n \in 0..MaxRows}}

NoFile == <<"<no file>">>
\* e.dataTransfer.files[0] and its type; a file of another type is never read,
\* so one such file stands for all of them
OtherFile == <<"company_name", Comma, "description", NL, "Acme", Comma, "Widgets">>
DroppedFiles(type) ==
    IF type = "text/csv" THEN Texts \cup {NoFile} ELSE {OtherFile, NoFile}
FileTypes == {"text/csv", "text/plain"}

StoreSuffixes == {3, 7}

RECURSIVE Stores(_)
Stores(n) ==
    IF n = 0 THEN {<<>>}
    ELSE Stores(n - 1) \cup
         {Append(st, FormatId(k)) : st \in {x \in Stores(n - 1) : Len(x) = n - 1},
                                    k \in StoreSuffixes}

KnownStores == {st \in Stores(MaxStore) : \A i, j \in 1..Len(st) : st[i] = st[j] => i = j}

NoRun == [text |-> NoFile]

----------------------------------------------------------------------------
(* CSVUploader *)

Init ==
    /\ isDragging = FALSE
    /\ uploadStatus = "idle"
    /\ errorMessage = ""
    /\ processedRows = 0
    /\ skippedRows = 0
    /\ store \in KnownStores
    /\ pending = <<>>
    /\ consoleLog = <<>>
    /\ lastSound = "none"
    /\ closeTimer = FALSE
    /\ onCloseCalled = FALSE
    /\ lastRun = NoRun
    /\ showPopup = FALSE
    /\ action = "null"
    /\ reported = <<>>
    /\ clicks = <<>>

DropZoneRenderedWhileBusy == uploadStatus \in {"idle", "processing"}

\* The drop zone and the file input are rendered only in this case.
DropZoneRendered == uploadStatus = "idle"

TryAgainRendered == uploadStatus = "error"

\* processCSV up to its suspension at "await file.text()"
StartProcessCSV(file) ==
    /\ uploadStatus' = "processing"
    /\ processedRows' = 0
    /\ skippedRows' = 0
    /\ lastSound' = "diskRead"
    /\ pending' = Append(pending, file)
    /\ lastRun' = NoRun
    /\ UNCHANGED <<errorMessage, store, consoleLog, closeTimer, onCloseCalled>>

handleDragOver ==
    /\ DropZoneRendered
    /\ isDragging' = TRUE
    /\ UNCHANGED <<uploadStatus, errorMessage, processedRows, skippedRows, store,
                   pending, consoleLog, lastSound, closeTimer, onCloseCalled, lastRun>>
    /\ UNCHANGED flagVars

handleDragLeave ==
    /\ DropZoneRendered
    /\ isDragging' = FALSE
    /\ UNCHANGED <<uploadStatus, errorMessage, processedRows, skippedRows, store,
                   pending, consoleLog, lastSound, closeTimer, onCloseCalled, lastRun>>
    /\ UNCHANGED flagVars

handleDrop ==
    /\ DropZoneRendered
    /\ Len(pending) < MaxPending
    /\ \E type \in FileTypes : \E file \in DroppedFiles(type) :
          /\ isDragging' = FALSE
          /\ IF file # NoFile /\ type = "text/csv"
             THEN StartProcessCSV(file)
             ELSE /\ uploadStatus' = "error"
                  /\ errorMessage' = MsgNotCsv
                  /\ lastSound' = "error"
                  /\ lastRun' = NoRun
                  /\ UNCHANGED <<processedRows, skippedRows, store, pending,
                                 consoleLog, closeTimer, onCloseCalled>>
    /\ UNCHANGED flagVars

handleFileSelect ==
    /\ DropZoneRendered
    /\ Len(pending) < MaxPending
    /\ \E file \in Texts \cup {NoFile} :
          IF file # NoFile
          THEN StartProcessCSV(file) /\ UNCHANGED isDragging
          ELSE UNCHANGED uploaderVars
    /\ UNCHANGED flagVars

\* file.text() resolves and processCSV runs to its end
ReadResolves ==
    \E i \in 1..Len(pending) :
       LET text == pending[i]
           run == ProcessText(text)
       IN /\ pending' = SubSeq(pending, 1, i - 1) \o SubSeq(pending, i + 1, Len(pending))
          /\ processedRows' = processedRows + run.processed
          /\ skippedRows' = skippedRows + run.skipped
          /\ lastRun' = [text |-> text, run |-> run]
          /\ IF run.thrown
             THEN /\ uploadStatus' = "error"
                  /\ errorMessage' = run.message
                  /\ lastSound' = "error"
                  /\ UNCHANGED <<consoleLog, closeTimer>>
             ELSE /\ consoleLog' = Append(consoleLog, run.newRecords)
                  /\ uploadStatus' = "success"
                  /\ lastSound' = "login"
                  /\ closeTimer' = TRUE
                  /\ UNCHANGED errorMessage
          /\ UNCHANGED <<isDragging, store, onCloseCalled>>
          /\ UNCHANGED flagVars

\* file.text() rejects: the catch block of processCSV
ReadRejects ==
    \E i \in 1..Len(pending) :
       /\ pending' = SubSeq(pending, 1, i - 1) \o SubSeq(pending, i + 1, Len(pending))
       /\ uploadStatus' = "error"
       /\ errorMessage' = MsgRead
       /\ lastSound' = "error"
       /\ UNCHANGED <<isDragging, processedRows, skippedRows, store, consoleLog,
                      closeTimer, onCloseCalled, lastRun>>
       /\ UNCHANGED flagVars

TryAgain ==
    /\ TryAgainRendered
    /\ uploadStatus' = "idle"
    /\ lastRun' = NoRun
    /\ UNCHANGED <<isDragging, errorMessage, processedRows, skippedRows, store,
                   pending, consoleLog, lastSound, closeTimer, onCloseCalled>>
    /\ UNCHANGED flagVars

\* The X button, rendered in every status: onClick={onClose}
ClickClose ==
    /\ onCloseCalled' = TRUE
    /\ UNCHANGED <<isDragging, uploadStatus, errorMessage, processedRows, skippedRows,
                   store, pending, consoleLog, lastSound, closeTimer, lastRun>>
    /\ UNCHANGED flagVars

\* setTimeout(() => onClose(), 3000) expires
CloseTimerFires ==
    /\ closeTimer
    /\ closeTimer' = FALSE
    /\ onCloseCalled' = TRUE
    /\ UNCHANGED <<isDragging, uploadStatus, errorMessage, processedRows, skippedRows,
                   store, pending, consoleLog, lastSound, lastRun>>
    /\ UNCHANGED flagVars

Next ==
    \/ handleDragOver
    \/ handleDragLeave
    \/ handleDrop
    \/ handleFileSelect
    \/ ReadResolves
    \/ ReadRejects
    \/ TryAgain
    \/ ClickClose
    \/ CloseTimerFires

Spec == Init /\ [][Next]_vars

----------------------------------------------------------------------------
(* VerificationFlag *)

Field == "ceo"

ReportAlwaysVerify(type) == [fn |-> "onVerify", field |-> Field]

Report(type) ==
    IF type = "verify" THEN [fn |-> "onVerify", field |-> Field]
    ELSE [fn |-> "onFlag", field |-> Field]

handleAction(type) ==
    /\ action' = type
    /\ showPopup' = TRUE
    /\ reported' = Append(reported, Report(type))

ClickVerify ==
    /\ Len(clicks) < MaxClicks
    /\ handleAction("verify")
    /\ clicks' = Append(clicks, [type |-> "verify", popup |-> showPopup])
    /\ UNCHANGED uploaderVars

ClickFlag ==
    /\ Len(clicks) < MaxClicks
    /\ handleAction("flag")
    /\ clicks' = Append(clicks, [type |-> "flag", popup |-> showPopup])
    /\ UNCHANGED uploaderVars

\* onClose of the popup: setShowPopup(false)
ClosePopup ==
    /\ showPopup
    /\ showPopup' = FALSE
    /\ UNCHANGED <<action, reported, clicks>>
    /\ UNCHANGED uploaderVars

NextFlag == ClickVerify \/ ClickFlag \/ ClosePopup

SpecFlag == Init /\ [][NextFlag]_vars

----------------------------------------------------------------------------
(* The last completed run, read back from the text of its file *)

RunDone == lastRun # NoRun

ClaimMax(S) == CHOOSE m \in S : \A x \in S : x <= m
ClaimMin(S) == CHOOSE m \in S : \A x \in S : m <= x

\* The file as a table: the header names with letter case ignored, and for
\* every line the trimmed cell under each header position.
ClaimTable(text) ==
    LET lines == Split(text, NL)
        hcells == Split(lines[1], Comma)
        names == [c \in 1..Len(hcells) |-> Trim(ToLowerCase(hcells[c]))]
        CellsOf(line) ==
            LET cs == Split(line, Comma)
            IN [c \in 1..Len(hcells) |-> IF c <= Len(cs) THEN Trim(cs[c]) ELSE <<>>]
    IN [ lines |-> lines,
         names |-> names,
         cells |-> [i \in 1..Len(lines) |-> CellsOf(lines[i])] ]

ClaimRows(t) == 2..Len(t.lines)

\* the column called name, letter case ignored (the last one of several); 0 if none
ClaimColumn(t, name) ==
    LET cols == {c \in 1..Len(t.names) : t.names[c] = ToLowerCase(name)}
    IN IF cols = {} THEN 0 ELSE ClaimMax(cols)

\* the cell of row i under the column called name; Undefined without such a column
ClaimField(t, i, name) ==
    LET c == ClaimColumn(t, name)
    IN IF c = 0 THEN Undefined ELSE t.cells[i][c]

ClaimHasCompanyColumn(t) == ClaimColumn(t, <<"company_name">>) # 0

ClaimBlankLine(t, i) == \A k \in 1..Len(t.lines[i]) : t.lines[i][k] \in Whitespace
ClaimAllBlank(t, i) == \A c \in 1..Len(t.names) : t.cells[i][c] = <<>>
ClaimCompanyBlank(t, i) == ClaimField(t, i, <<"company_name">>) \in {Undefined, <<>>}
ClaimSkippable(t, i) ==
    ClaimBlankLine(t, i) \/ ClaimAllBlank(t, i) \/ ClaimCompanyBlank(t, i)

ClaimValidJson == {<<"[]">>, <<"[1]">>}

\* row i has a company name and an images cell that is not valid JSON
ClaimMalformed(t, i) ==
    /\ ~ClaimCompanyBlank(t, i)
    /\ ClaimField(t, i, <<"images">>) \notin {Undefined, <<>>} \cup ClaimValidJson

\* the first malformed row, or the line count plus one
ClaimFirstMalformed(t) ==
    LET bad == {i \in ClaimRows(t) : ClaimMalformed(t, i)}
    IN IF bad = {} THEN Len(t.lines) + 1 ELSE ClaimMin(bad)

\* the rows the loop reaches: those before the first malformed row
ClaimReached(t) ==
    IF ~ClaimHasCompanyColumn(t) THEN {} ELSE 2..(ClaimFirstMalformed(t) - 1)

ClaimSuffix(id) == ParseInt(Split(id, Dash)[2])
ClaimStoreSuffixes == {ClaimSuffix(store[k]) : k \in 1..Len(store)}
ClaimHighest == IF store = <<>> THEN 0 ELSE ClaimMax(ClaimStoreSuffixes)

----------------------------------------------------------------------------
(* C1: the records created by one import run have pairwise distinct ids,
   none of them an id of a known record, and their numeric suffixes
   increase strictly in the order the rows were processed. *)
C1_UniqueIncreasingIds ==
    RunDone =>
        LET recs == lastRun.run.newRecords
        IN /\ \A a, b \in 1..Len(recs) :
                 a < b => ClaimSuffix(recs[a].id) < ClaimSuffix(recs[b].id)
           /\ \A a \in 1..Len(recs), k \in 1..Len(store) : recs[a].id # store[k]

(* C2: a file whose header, lower-cased and trimmed token by token, has no
   company_name fails: the status ends as 'error' with the format-error
   message, no row is converted or counted and no record is produced. *)
C2_MissingHeaderFails ==
    RunDone =>
        LET t == ClaimTable(lastRun.text)
        IN ~ClaimHasCompanyColumn(t) =>
              /\ uploadStatus = "error"
              /\ errorMessage = MsgFormat
              /\ lastRun.run.newRecords = <<>>
              /\ processedRows = 0
              /\ skippedRows = 0
              /\ consoleLog = <<>>
              /\ ~closeTimer

C2_Witness ==
    /\ RunDone
    /\ uploadStatus = "error"
    /\ LET t == ClaimTable(lastRun.text)
       IN /\ ~ClaimHasCompanyColumn(t)
          /\ \E i \in ClaimRows(t) : t.cells[i][1] # <<>>

(* C3: in a run that completes successfully every data row with a non-blank
   company_name gives exactly one record, in row order, whose name and
   subject are the trimmed company_name; the processed count is the number
   of such rows and the number of records produced. *)
C3_OneRecordPerNamedRow ==
    (RunDone /\ uploadStatus = "success") =>
        LET t == ClaimTable(lastRun.text)
            recs == lastRun.run.newRecords
            named == SelectSeq([i \in 1..Len(t.lines) |-> i],
                               LAMBDA i : i >= 2 /\ ~ClaimCompanyBlank(t, i))
        IN /\ Len(recs) = Len(named)
           /\ processedRows = Len(named)
           /\ consoleLog = <<recs>>
           /\ \A k \in 1..Len(named) :
                 /\ recs[k].name = ClaimField(t, named[k], <<"company_name">>)
                 /\ recs[k].subject = ClaimField(t, named[k], <<"company_name">>)

C3_Witness ==
    /\ RunDone
    /\ uploadStatus = "success"
    /\ processedRows = 1
    /\ skippedRows = 1
    /\ LET t == ClaimTable(lastRun.text)
       IN \E i \in ClaimRows(t) :
             /\ ~ClaimCompanyBlank(t, i)
             /\ Head(t.lines[i]) \in Whitespace
             /\ lastRun.run.newRecords[1].name = <<"Acme">>

ExampleText ==
    <<"company_name", Comma, "description", NL,
      "Acme", Comma, "Widgets", NL,
      Comma, Comma>>

(* C4 as stated: every line after the header that is empty or whitespace-only,
   or whose fields are all blank, or whose company_name is blank, creates no
   record and adds exactly one to the skipped count, in every run. *)
C4_EveryBlankRowCounted ==
    RunDone =>
        LET t == ClaimTable(lastRun.text)
            skippable == {i \in ClaimRows(t) : ClaimSkippable(t, i)}
        IN /\ skippedRows = Cardinality(skippable)
           /\ Len(lastRun.run.newRecords) <= Cardinality(ClaimRows(t) \ skippable)

(* C4, amended: in a file whose header has company_name, every line after the
   header that has no malformed row (non-blank company_name, images cell not
   valid JSON) before it, and that is empty or whitespace-only, or whose
   fields are all blank, or whose company_name is blank, creates no record
   and adds exactly one to the skipped count; the lines from the first
   malformed row on, and all lines under a header without company_name, are
   never examined and add nothing.  Header company_name,description with rows
   'Acme,Widgets' and ',,' gives one processed record and a skipped count
   of 1. *)
C4_BlankRowsSkipped ==
    RunDone =>
        LET t == ClaimTable(lastRun.text)
            skippable == {i \in ClaimReached(t) : ClaimSkippable(t, i)}
        IN /\ skippedRows = Cardinality(skippable)
           /\ Len(lastRun.run.newRecords) = Cardinality(ClaimReached(t) \ skippable)
           /\ lastRun.text = ExampleText =>
                 /\ uploadStatus = "success"
                 /\ processedRows = 1
                 /\ skippedRows = 1
                 /\ Len(consoleLog[1]) = 1
                 /\ consoleLog[1][1].name = <<"Acme">>
                 /\ consoleLog[1][1].description = <<"Widgets">>

C4_Witness ==
    /\ RunDone
    /\ lastRun.text = ExampleText
    /\ uploadStatus = "success"
    /\ processedRows = 1
    /\ skippedRows = 1

(* C5: generateId gives CORP- and the 4-digit zero-padded h + 1, h being the
   highest numeric suffix among the ids of the known records (0 when there
   are none), whatever the order of the known records. *)
C5_NextIdAfterHighest ==
    (RunDone /\ lastRun.run.newRecords # <<>>) =>
        lastRun.run.newRecords[1].id = FormatId(ClaimHighest + 1)

(* C6: a data row with a non-blank company_name and an images cell that is
   not valid JSON aborts the run: the status ends as 'error', the rows after
   it are not processed, and no records of the run are surfaced. *)
C6_MalformedImagesAborts ==
    RunDone =>
        LET t == ClaimTable(lastRun.text)
            first == ClaimFirstMalformed(t)
        IN (ClaimHasCompanyColumn(t) /\ first <= Len(t.lines)) =>
              /\ uploadStatus = "error"
              /\ errorMessage = MsgSyntax
              /\ processedRows + skippedRows = first - 2
              /\ consoleLog = <<>>
              /\ ~closeTimer

C6_Witness ==
    /\ RunDone
    /\ uploadStatus = "error"
    /\ errorMessage = MsgSyntax
    /\ processedRows = 1
    /\ consoleLog = <<>>
    /\ LET t == ClaimTable(lastRun.text)
       IN ClaimHasCompanyColumn(t) /\ ClaimFirstMalformed(t) = 3

(* C7: every click on the verify icon reports onVerify(field) exactly once
   and nothing else, every click on the flag icon reports onFlag(field)
   exactly once and nothing else, whether or not a confirmation is still
   displayed; the click displays the confirmation for its action, and
   dismissing the confirmation hides it and reports nothing. *)
C7_ClickReportsOnce ==
    [][ /\ clicks' # clicks =>
              LET click == clicks'[Len(clicks')]
                  call == [fn |-> IF click.type = "verify" THEN "onVerify" ELSE "onFlag",
                           field |-> Field]
              IN /\ reported' = Append(reported, call)
                 /\ showPopup'
                 /\ action' = click.type
        /\ clicks' = clicks => (reported' = reported /\ showPopup /\ ~showPopup')
      ]_vars

C7_Witness ==
    /\ ~showPopup
    /\ Len(reported) >= 3
    /\ \E i \in 1..Len(clicks) : clicks[i].type = "flag" /\ clicks[i].popup
    /\ \E i \in 1..Len(clicks) : clicks[i].type = "verify" /\ clicks[i].popup

(* C8: at most one import run is in flight at a time, and one is in flight
   exactly while the upload status is 'processing'. *)
C8_SingleRunInFlight ==
    /\ Len(pending) <= 1
    /\ (pending # <<>>) <=> (uploadStatus = "processing")

C8_Witness ==
    /\ Len(pending) = 1
    /\ uploadStatus = "processing"
    /\ errorMessage = MsgSyntax

\* What the file holds for a list column: the text from the column's position
\* to the end of the line when the column is the last one, else its cell.
ClaimListValue(t, i, name) ==
    LET c == ClaimColumn(t, name)
        raw == Split(t.lines[i], Comma)
        RECURSIVE Join(_)
        Join(k) == IF k >= Len(raw) THEN raw[k] ELSE raw[k] \o <<Comma>> \o Join(k + 1)
    IN IF c = 0 THEN Undefined
       ELSE IF c = Len(t.names) /\ c <= Len(raw) THEN Join(c)
       ELSE t.cells[i][c]

(* C9: for a data row with a non-blank company_name the record's category,
   tags and language are the comma-separated items of the column's value,
   each trimmed and upper-cased, in order: 'a, b,c' yields A, B, C. *)
C9_ListColumnsRoundTrip ==
    (RunDone /\ uploadStatus = "success") =>
        LET t == ClaimTable(lastRun.text)
            recs == lastRun.run.newRecords
            named == SelectSeq([i \in 1..Len(t.lines) |-> i],
                               LAMBDA i : i >= 2 /\ ~ClaimCompanyBlank(t, i))
        IN \A k \in 1..Len(recs), col \in {"category", "tags", "language"} :
              LET v == ClaimListValue(t, named[k], <<col>>)
              IN (v # Undefined /\ Trim(v) # <<>>) =>
                    recs[k][col] = MapTrimUpper(Split(v, Comma))

(* C10: column lookup ignores letter case for every recognised column: a
   non-blank cell under a header address, zipCode, city, country, ceo or
   taxId in any letter case is the record field of that name, and the field
   is empty only when the column is absent or the cell is blank. *)
C10_CaseInsensitiveColumns ==
    (RunDone /\ uploadStatus = "success") =>
        LET t == ClaimTable(lastRun.text)
            recs == lastRun.run.newRecords
            named == SelectSeq([i \in 1..Len(t.lines) |-> i],
                               LAMBDA i : i >= 2 /\ ~ClaimCompanyBlank(t, i))
        IN \A k \in 1..Len(recs),
              f \in {"address", "zipCode", "city", "country", "ceo", "taxId"} :
              LET v == ClaimField(t, named[k], <<f>>)
              IN recs[k][f] = IF v = Undefined THEN <<>> ELSE v

====
